---- MODULE Spec2Model ----
(***************************************************************************)
(* Model of the aws-tui resource-browsing engine: the handler registry     *)
(* (internal/handlers/registry.go), the resource list view with its        *)
(* pagination state (views.ResourceListView), the table / search / tag     *)
(* filter components it drives, and the App orchestration loop             *)
(* (internal/ui/app.go) that routes key presses and completed background   *)
(* commands.                                                               *)
(***************************************************************************)
EXTENDS Integers, Sequences, FiniteSets, Bags, TLC

(***************************************************************************)
(* Bounds                                                                  *)
(***************************************************************************)
\* number of pages a paginated handler serves (tokens "" -> 1 -> 2 -> "")
NumPages == 3
\* resources returned on one page
ResPerPage == 2
\* number of credential scopes (profile/region configurations) visited
MaxScope == 2
\* background commands / messages that may be outstanding at once
MaxPending == 1
\* the same, where several loads under way are explored
MaxInFlight == 2
\* Register calls explored by the registry-only specification
MaxRegisterCalls == 2
\* characters a text input accepts (stands for the inputs' CharLimit)
MaxInputLen == 1
\* registerHandlers calls explored (start-up and profile or region switches)
MaxRegistrations == 2
\* rows of a page whose tags, order and filtering are explored
MaxRows == 3

(***************************************************************************)
(* Handlers: static metadata of every ResourceHandler implementation       *)
(***************************************************************************)
Act(k, n) == [key |-> k, name |-> n]

RegisteredTypes ==
  << "iam:users", "iam:roles", "iam:policies", "ec2:security-groups",
     "ec2:instances", "ec2:vpcs", "kms:keys", "secretsmanager:secrets",
     "rds:instances", "ecs:clusters", "lambda:functions", "logs:loggroups",
     "s3:buckets" >>

ScopedTypes ==
  { "ecs:services", "ecs:tasks", "logs:logstreams", "dynamodb:items" }

AllTypes ==
  { RegisteredTypes[i] : i \in 1..Len(RegisteredTypes) } \cup ScopedTypes
    \cup { "dynamodb:tables" }

HandlerInfo ==
  [ t \in AllTypes |->
    CASE t = "iam:users" ->
           [ name |-> "IAM Users", shortcut |-> "users", paginated |-> TRUE,
             actions |-> << Act("p", "policies"), Act("g", "groups"),
                            Act("k", "access-keys"), Act("m", "mfa") >>,
             sortable |-> << TRUE, FALSE, TRUE, TRUE, FALSE, FALSE >> ]
      [] t = "iam:roles" ->
           [ name |-> "IAM Roles", shortcut |-> "roles", paginated |-> TRUE,
             actions |-> << Act("p", "policies"), Act("t", "trust"),
                            Act("i", "instance-profiles") >>,
             sortable |-> << TRUE, TRUE, TRUE, FALSE, FALSE >> ]
      [] t = "iam:policies" ->
           [ name |-> "IAM Policies", shortcut |-> "policies",
             paginated |-> TRUE,
             actions |-> << Act("v", "view-document"), Act("e", "entities"),
                            Act("V", "versions") >>,
             sortable |-> << TRUE, TRUE, TRUE, TRUE, FALSE >> ]
      [] t = "ec2:security-groups" ->
           [ name |-> "Security Groups", shortcut |-> "sg",
             paginated |-> FALSE, actions |-> << >>,
             sortable |-> << TRUE, FALSE, FALSE, FALSE, FALSE, FALSE >> ]
      [] t = "ec2:instances" ->
           [ name |-> "EC2 Instances", shortcut |-> "ec2",
             paginated |-> FALSE,
             actions |-> << Act("s", "start"), Act("S", "stop"),
                            Act("r", "reboot"), Act("c", "connect") >>,
             sortable |-> << TRUE, FALSE, TRUE, TRUE, FALSE, FALSE, FALSE >> ]
      [] t = "ec2:vpcs" ->
           [ name |-> "VPCs", shortcut |-> "vpc", paginated |-> FALSE,
             actions |-> << Act("s", "subnets"), Act("r", "routes"),
                            Act("n", "nacls") >>,
             sortable |-> << TRUE, FALSE, FALSE, TRUE, FALSE, FALSE, FALSE >> ]
      [] t = "kms:keys" ->
           [ name |-> "KMS Keys", shortcut |-> "kms", paginated |-> FALSE,
             actions |-> << Act("p", "policy"), Act("r", "rotation") >>,
             sortable |-> << TRUE, TRUE, FALSE, FALSE, TRUE, FALSE >> ]
      [] t = "secretsmanager:secrets" ->
           [ name |-> "Secrets", shortcut |-> "secrets", paginated |-> FALSE,
             actions |-> << Act("r", "rotation"), Act("v", "versions") >>,
             sortable |-> << TRUE, FALSE, TRUE, TRUE, FALSE >> ]
      [] t = "rds:instances" ->
           [ name |-> "RDS Instances", shortcut |-> "rds", paginated |-> FALSE,
             actions |-> << Act("s", "start"), Act("S", "stop"),
                            Act("r", "reboot"), Act("b", "snapshots") >>,
             sortable |-> << TRUE, TRUE, TRUE, TRUE, FALSE, FALSE, FALSE >> ]
      [] t = "ecs:clusters" ->
           [ name |-> "ECS Clusters", shortcut |-> "ecs", paginated |-> FALSE,
             actions |-> << Act("s", "services"), Act("t", "tasks") >>,
             sortable |-> << TRUE, TRUE, FALSE, FALSE, FALSE, FALSE >> ]
      [] t = "lambda:functions" ->
           [ name |-> "Lambda Functions", shortcut |-> "lambda",
             paginated |-> FALSE,
             actions |-> << Act("i", "invoke"), Act("l", "logs") >>,
             sortable |-> << TRUE, TRUE, TRUE, FALSE, FALSE, TRUE >> ]
      [] t = "logs:loggroups" ->
           [ name |-> "Log Groups", shortcut |-> "logs", paginated |-> FALSE,
             actions |-> << Act("s", "streams") >>,
             sortable |-> << TRUE, TRUE, TRUE, TRUE >> ]
      [] t = "s3:buckets" ->
           [ name |-> "S3 Buckets", shortcut |-> "s3", paginated |-> FALSE,
             actions |-> << Act("p", "policy") >>,
             sortable |-> << TRUE, TRUE, TRUE >> ]
      [] t = "ecs:services" ->
           [ name |-> "ECS Services", shortcut |-> "ecs-services",
             paginated |-> FALSE, actions |-> << Act("t", "tasks") >>,
             sortable |-> << TRUE, TRUE, FALSE, FALSE, FALSE, FALSE, FALSE >> ]
      [] t = "ecs:tasks" ->
           [ name |-> "ECS Tasks", shortcut |-> "ecs-tasks",
             paginated |-> FALSE, actions |-> << Act("x", "exec") >>,
             sortable |-> << TRUE, TRUE, FALSE, FALSE, FALSE, TRUE >> ]
      [] t = "logs:logstreams" ->
           [ name |-> "Log Streams", shortcut |-> "log-streams",
             paginated |-> FALSE, actions |-> << Act("e", "events") >>,
             sortable |-> << TRUE, TRUE, TRUE, TRUE >> ]
      [] t = "dynamodb:tables" ->
           [ name |-> "DynamoDB Tables", shortcut |-> "dynamodb",
             paginated |-> FALSE, actions |-> << Act("v", "view-items") >>,
             sortable |-> << TRUE, TRUE, TRUE, TRUE, TRUE, TRUE >> ]
      [] t = "dynamodb:items" ->
           [ name |-> "Items in", shortcut |-> "dynamodb-items",
             paginated |-> FALSE,
             actions |-> << Act("e", "edit"), Act("x", "delete") >>,
             sortable |-> << TRUE, TRUE, FALSE >> ] ]

\* A handler instance: its resource type, the credential scope its client was
\* built for, and the path of parent resource names it was constructed for
\* (cluster, then service; empty for a top-level handler).
Handler(t, s, p) == [type |-> t, scope |-> s, parent |-> p]
NoHandler == Handler("", 0, << >>)

ResourceType(h) == h.type
ShortcutKey(h) == HandlerInfo[h.type].shortcut
\* DynamoDBItemsHandler formats its name from the table it was built for
ResourceName(h) ==
  IF h.type = "dynamodb:items"
    THEN IF h.parent = << "r1" >> THEN "Items in r1"
         ELSE IF h.parent = << "r2" >> THEN "Items in r2"
         ELSE "Items in "
    ELSE HandlerInfo[h.type].name
Actions(h) == IF h = NoHandler THEN << >> ELSE HandlerInfo[h.type].actions
Columns(h) == IF h = NoHandler THEN << >> ELSE HandlerInfo[h.type].sortable

ActionKeys(h) == { Actions(h)[i].key : i \in 1..Len(Actions(h)) }
HasActionKey(h, k) == k \in ActionKeys(h)
\* the first declared action bound to key k (the dispatch loop stops there)
ActionForKey(h, k) ==
  LET i == CHOOSE j \in 1..Len(Actions(h)) :
             /\ Actions(h)[j].key = k
             /\ \A l \in 1..(j - 1) : Actions(h)[l].key # k
  IN  Actions(h)[i]

(***************************************************************************)
(* State                                                                   *)
(***************************************************************************)
VARIABLES
  registry,   \* handlers.Registry: handlers, aliases, order
  clientMgr,  \* awsadapter.ClientManager: the scope the clients are built for
  a,          \* ui.App: state, mode, loading
  footer,     \* components.Footer
  v,          \* views.ResourceListView
  table,      \* components.Table
  search,     \* components.Search
  tagFilter,  \* components.TagFilter
  detail,     \* components.Detail
  pending,    \* bag of background commands whose result is not yet delivered
  process     \* "running", "exited" (tea.Quit) or "crashed" (runtime panic)

vars ==
  << registry, clientMgr, a, footer, v, table, search, tagFilter, detail,
     pending, process >>

(***************************************************************************)
(* Registry                                                                *)
(***************************************************************************)
NewRegistry ==
  [ handlers |-> << >>, aliases |-> << >>, order |-> << >> ]

\* m[k] = x, adding k to the domain when absent (Go map assignment)
MapSet(m, k, x) ==
  [ y \in (DOMAIN m) \cup {k} |-> IF y = k THEN x ELSE m[y] ]

\* Register that records no alias for the handler's display name
RegisterWithoutName(r, handler) ==
  LET resourceType == ResourceType(handler)
      key == ShortcutKey(handler)
  IN  [ handlers |-> MapSet(r.handlers, resourceType, handler),
        order    |-> Append(r.order, resourceType),
        aliases  |-> IF key # "" THEN MapSet(r.aliases, key, resourceType)
                                 ELSE r.aliases ]

Register(r, handler) ==
  LET resourceType == ResourceType(handler)
      key == ShortcutKey(handler)
      byKey == IF key # "" THEN MapSet(r.aliases, key, resourceType)
                           ELSE r.aliases
  IN  [ handlers |-> MapSet(r.handlers, resourceType, handler),
        order    |-> Append(r.order, resourceType),
        aliases  |-> MapSet(byKey, ResourceName(handler), resourceType) ]

\* (handler, ok) of Registry.Get
Get(r, typeOrAlias) ==
  IF typeOrAlias \in DOMAIN r.handlers
    THEN [ h |-> r.handlers[typeOrAlias], ok |-> TRUE ]
  ELSE IF typeOrAlias \in DOMAIN r.aliases
    THEN [ h |-> IF r.aliases[typeOrAlias] \in DOMAIN r.handlers
                   THEN r.handlers[r.aliases[typeOrAlias]]
                   ELSE NoHandler,
           ok |-> TRUE ]
  ELSE [ h |-> NoHandler, ok |-> FALSE ]

RECURSIVE AllFrom(_, _)
AllFrom(r, i) ==
  IF i > Len(r.order) THEN << >>
  ELSE IF r.order[i] \in DOMAIN r.handlers
    THEN << r.handlers[r.order[i]] >> \o AllFrom(r, i + 1)
    ELSE AllFrom(r, i + 1)

All(r) == AllFrom(r, 1)

Types(r) == r.order

(***************************************************************************)
(* Text: strings whose characters the code inspects are character tuples   *)
(***************************************************************************)
Lower(c) ==
  CASE c = "A" -> "a" [] c = "B" -> "b" [] c = "P" -> "p" [] c = "R" -> "r"
    [] c = "X" -> "x" [] c = "C" -> "c" [] c = "G" -> "g" [] c = "N" -> "n"
    [] c = "O" -> "o" [] c = "S" -> "s" [] c = "V" -> "v" [] OTHER -> c

\* strings.ToLower
ToLower(s) == [ i \in 1..Len(s) |-> Lower(s[i]) ]

\* byte order of the characters used
Code(c) ==
  CASE c = "1" -> 49 [] c = "2" -> 50 [] c = "3" -> 51
    [] c = "A" -> 65 [] c = "B" -> 66 [] c = "P" -> 80 [] c = "R" -> 82
    [] c = "X" -> 88
    [] c = "a" -> 97 [] c = "b" -> 98 [] c = "d" -> 100 [] c = "e" -> 101
    [] c = "g" -> 103 [] c = "i" -> 105 [] c = "n" -> 110 [] c = "o" -> 111
    [] c = "p" -> 112 [] c = "r" -> 114 [] c = "s" -> 115 [] c = "t" -> 116
    [] c = "x" -> 120 [] c = "z" -> 122
    [] OTHER -> 63

\* strings.Contains(s, sub)
Contains(s, sub) ==
  \E i \in 0..(Len(s) - Len(sub)) :
    \A j \in 1..Len(sub) : s[i + j] = sub[j]

\* Go's s < t on strings: bytewise lexicographic order
RECURSIVE StrLess(_, _)
StrLess(s, t) ==
  IF t = << >> THEN FALSE
  ELSE IF s = << >> THEN TRUE
  ELSE IF Code(Head(s)) # Code(Head(t)) THEN Code(Head(s)) < Code(Head(t))
  ELSE StrLess(Tail(s), Tail(t))

(***************************************************************************)
(* Resources and what the handlers' List returns                           *)
(***************************************************************************)
Res(t, p, i) == [type |-> t, page |-> p, idx |-> i]
NoRes == Res("", 0, 0)

\* GetID / GetName of a resource
GetName(res) ==
  CASE res.idx = 1 -> "r1" [] res.idx = 2 -> "r2" [] res.idx = 3 -> "r3"
    [] OTHER -> "r"

\* ToTableRow: one cell per column of the resource's type.  Column 1 is the
\* name, column 2 repeats one value on every row, the others alternate case.
ToTableRow(res) ==
  [ c \in 1..Len(HandlerInfo[res.type].sortable) |->
      CASE c = 1 -> IF res.idx = 1 THEN << "r", "1" >>
                    ELSE IF res.idx = 2 THEN << "R", "2" >>
                    ELSE << "r", "3" >>
        [] c = 2 -> << "x" >>
        [] OTHER -> IF (res.idx + res.page) % 2 = 0 THEN << "B" >>
                                                     ELSE << "a" >> ]

EmptyToken == << >>
\* the continuation token a paginated handler returns in front of page k
Token(t, k) == << t, k >>

\* the page a handler serves for a token; 0 when the token is not one of its own
PageOfToken(h, token) ==
  IF ~HandlerInfo[h.type].paginated THEN 1
  ELSE IF token = EmptyToken THEN 1
  ELSE IF token[1] = h.type /\ token[2] \in 2..NumPages THEN token[2]
  ELSE 0

\* ResourceHandler.List: the page and its continuation token, or an error
List(h, token, fails) ==
  LET p == PageOfToken(h, token) IN
  IF fails \/ p = 0
    THEN [ Resources |-> << >>, NextToken |-> EmptyToken,
           Error |-> "LIST_FAILED" ]
    ELSE [ Resources |-> [ i \in 1..ResPerPage |-> Res(h.type, p, i) ],
           NextToken |-> IF HandlerInfo[h.type].paginated /\ p < NumPages
                           THEN Token(h.type, p + 1) ELSE EmptyToken,
           Error |-> "" ]

(***************************************************************************)
(* components.Table                                                        *)
(***************************************************************************)
NewTable ==
  [ columns |-> << >>, resources |-> << >>, cursor |-> 0, filter |-> << >>,
    filtered |-> << >>, sortColumn |-> -1, sortAscending |-> TRUE,
    focused |-> TRUE ]

\* t.rows[i] (0-based, as in the code) is the row of t.resources[i]
RowAt(t, i) == ToTableRow(t.resources[i + 1])

SetColumns(t, columns) == [ t EXCEPT !.columns = columns ]

SetResources(t, resources) ==
  LET filtered == [ i \in 1..Len(resources) |-> i - 1 ] IN
  [ t EXCEPT !.resources = resources,
             !.filtered = filtered,
             !.cursor = IF t.cursor >= Len(filtered) THEN 0 ELSE t.cursor ]

RowMatches(row, filter) ==
  \E c \in 1..Len(row) : Contains(ToLower(row[c]), filter)

RECURSIVE FilterRows(_, _, _)
FilterRows(t, filter, i) ==
  IF i >= Len(t.resources) THEN << >>
  ELSE IF filter = << >> \/ RowMatches(RowAt(t, i), filter)
    THEN << i >> \o FilterRows(t, filter, i + 1)
    ELSE FilterRows(t, filter, i + 1)

\* a filter that adds the matching rows to those already shown
ApplyFilterAppending(t, filter) ==
  LET f == ToLower(filter)
      filtered == t.filtered \o FilterRows(t, f, 0)
  IN  [ t EXCEPT !.filter = f,
                 !.filtered = filtered,
                 !.cursor = IF t.cursor >= Len(filtered) THEN 0 ELSE t.cursor ]

\* a filter that leaves the cursor where it was
ApplyFilterKeepingCursor(t, filter) ==
  LET f == ToLower(filter) IN
  [ t EXCEPT !.filter = f, !.filtered = FilterRows(t, f, 0) ]

ApplyFilter(t, filter) ==
  LET f == ToLower(filter)
      filtered == FilterRows(t, f, 0)
  IN  [ t EXCEPT !.filter = f,
                 !.filtered = filtered,
                 !.cursor = IF t.cursor >= Len(filtered) THEN 0 ELSE t.cursor ]

SelectedResource(t) ==
  IF Len(t.filtered) = 0 \/ t.cursor >= Len(t.filtered) THEN NoRes
  ELSE IF t.filtered[t.cursor + 1] >= Len(t.resources) THEN NoRes
  ELSE t.resources[t.filtered[t.cursor + 1] + 1]

TableLen(t) == Len(t.filtered)

Focus(t) == [ t EXCEPT !.focused = TRUE ]
Blur(t) == [ t EXCEPT !.focused = FALSE ]

\* the comparison closure of Table.Sort, on 0-based row indices
SortLessOrEqual(t, i, j) ==
  IF i >= Len(t.resources) \/ j >= Len(t.resources) THEN FALSE
  ELSE LET valI == ToLower(RowAt(t, i)[t.sortColumn + 1])
           valJ == ToLower(RowAt(t, j)[t.sortColumn + 1])
       IN  IF t.sortAscending THEN ~StrLess(valJ, valI) ELSE ~StrLess(valI, valJ)

SortLess(t, i, j) ==
  IF i >= Len(t.resources) \/ j >= Len(t.resources) THEN FALSE
  ELSE IF t.sortColumn >= Len(RowAt(t, i)) \/ t.sortColumn >= Len(RowAt(t, j))
    THEN FALSE
  ELSE LET valI == ToLower(RowAt(t, i)[t.sortColumn + 1])
           valJ == ToLower(RowAt(t, j)[t.sortColumn + 1])
       IN  IF t.sortAscending THEN StrLess(valI, valJ) ELSE StrLess(valJ, valI)

Swap(s, x, y) == [ s EXCEPT ![x] = s[y], ![y] = s[x] ]

\* inner loop of the bubble sort: j runs from 0 while j < len - i - 1
RECURSIVE BubbleInner(_, _, _, _)
BubbleInner(t, indices, i, j) ==
  IF j >= Len(indices) - i - 1 THEN indices
  ELSE BubbleInner(t,
         IF SortLess(t, indices[j + 2], indices[j + 1])
           THEN Swap(indices, j + 1, j + 2) ELSE indices,
         i, j + 1)

RECURSIVE BubbleOuter(_, _, _)
BubbleOuter(t, indices, i) ==
  IF i >= Len(indices) - 1 THEN indices
  ELSE BubbleOuter(t, BubbleInner(t, indices, i, 0), i + 1)

Sort(t) ==
  IF t.sortColumn = -1 \/ t.sortColumn >= Len(t.columns)
       \/ Len(t.resources) = 0
    THEN t
    ELSE LET indices == BubbleOuter(t, [ i \in 1..Len(t.resources) |-> i - 1 ], 0)
             newResources ==
               [ i \in 1..Len(indices) |-> t.resources[indices[i] + 1] ]
         IN  ApplyFilter([ t EXCEPT !.resources = newResources ], t.filter)

RECURSIVE SortableFrom(_, _)
SortableFrom(columns, i) ==
  IF i >= Len(columns) THEN << >>
  ELSE IF columns[i + 1] THEN << i >> \o SortableFrom(columns, i + 1)
  ELSE SortableFrom(columns, i + 1)

CycleSortColumn(t) ==
  LET sortableColumns == SortableFrom(t.columns, 0) IN
  IF Len(t.columns) = 0 \/ Len(sortableColumns) = 0 THEN t
  ELSE LET found == { i \in 1..Len(sortableColumns) :
                        sortableColumns[i] = t.sortColumn }
           currentPos == IF found = {} THEN -1
                         ELSE (CHOOSE i \in found : \A k \in found : i <= k) - 1
           nextPos == (currentPos + 1) % Len(sortableColumns)
       IN  Sort([ t EXCEPT !.sortColumn = sortableColumns[nextPos + 1],
                           !.sortAscending = TRUE ])

ToggleSortDirection(t) ==
  IF t.sortColumn = -1 THEN t
  ELSE Sort([ t EXCEPT !.sortAscending = ~t.sortAscending ])

moveDown(t) ==
  IF Len(t.filtered) = 0 THEN t
  ELSE IF t.cursor < Len(t.filtered) - 1
    THEN [ t EXCEPT !.cursor = t.cursor + 1 ] ELSE t

moveUp(t) == IF t.cursor > 0 THEN [ t EXCEPT !.cursor = t.cursor - 1 ] ELSE t

moveToTop(t) == [ t EXCEPT !.cursor = 0 ]

moveToBottom(t) ==
  IF Len(t.filtered) > 0 THEN [ t EXCEPT !.cursor = Len(t.filtered) - 1 ] ELSE t

(***************************************************************************)
(* Tags and components.TagFilter                                           *)
(***************************************************************************)
\* GetTags: IAM resources return nil, the others carry env / team tags
GetTags(res) ==
  IF res.type \in { "iam:users", "iam:roles", "iam:policies", "" } THEN << >>
  ELSE CASE res.idx = 1 -> [ k \in { "env" } |-> << "p", "r", "o", "d" >> ]
         [] res.idx = 2 ->
              [ k \in { "env" } |-> << "s", "t", "a", "g", "i", "n", "g" >> ]
         [] OTHER ->
              [ k \in { "env", "team" } |->
                  IF k = "env" THEN << "P", "r", "o", "d" >> ELSE << "x" >> ]

\* sort.Strings over the tag keys in use
KeyLess(k1, k2) == k1 = "env" /\ k2 = "team"

RECURSIVE SortedKeys(_)
\* sort.Strings(t.tagKeys)
SortedKeys(S) ==
  IF S = {} THEN << >>
  ELSE LET m == CHOOSE x \in S : \A y \in S \ {x} : ~KeyLess(y, x)
       IN  << m >> \o SortedKeys(S \ {m})

RECURSIVE SortedValues(_)
\* sort.Strings(vals)
SortedValues(S) ==
  IF S = {} THEN << >>
  ELSE LET m == CHOOSE x \in S : \A y \in S \ {x} : ~StrLess(y, x)
       IN  << m >> \o SortedValues(S \ {m})

\* a tag filter that keeps a resource only when the tag's value equals the
\* filter value
FilterByTagsExact(resources, tags) ==
  IF DOMAIN tags = {} THEN resources
  ELSE SelectSeq(resources,
         LAMBDA res :
           \A filterKey \in DOMAIN tags :
             /\ filterKey \in DOMAIN GetTags(res)
             /\ ToLower(GetTags(res)[filterKey]) = ToLower(tags[filterKey]))

FilterByTags(resources, tags) ==
  IF DOMAIN tags = {} THEN resources
  ELSE SelectSeq(resources,
         LAMBDA res :
           \A filterKey \in DOMAIN tags :
             /\ filterKey \in DOMAIN GetTags(res)
             /\ Contains(ToLower(GetTags(res)[filterKey]),
                         ToLower(tags[filterKey])))

NewTagFilter ==
  [ active |-> FALSE, availableTags |-> << >>, selectedTags |-> << >>,
    mode |-> "modeSelectKey", tagKeys |-> << >>, tagValues |-> << >>,
    cursor |-> 0, currentKey |-> "", input |-> << >> ]

TagFilterSetResources(t, resources) ==
  LET keys == UNION { DOMAIN GetTags(resources[i]) : i \in 1..Len(resources) }
      valuesOf(k) == { GetTags(resources[i])[k] :
                         i \in { j \in 1..Len(resources) :
                                   k \in DOMAIN GetTags(resources[j]) } }
  IN  [ t EXCEPT !.availableTags = [ k \in keys |-> SortedValues(valuesOf(k)) ],
                 !.tagKeys = SortedKeys(keys) ]

TagFilterActivate(t) ==
  [ t EXCEPT !.active = TRUE, !.mode = "modeSelectKey", !.cursor = 0,
             !.currentKey = "" ]

ClearFilters(t) == [ t EXCEPT !.selectedTags = << >> ]

MapDelete(m, k) == [ y \in (DOMAIN m) \ {k} |-> m[y] ]

(***************************************************************************)
(* Background commands and the messages they deliver                       *)
(***************************************************************************)
\* A pending command.  stale marks a List call that was dispatched before the
\* latest handler switch, refresh or return to Home (the code keeps no such
\* mark; it is recorded to state which results are out of date).
NoBookmark == [ type |-> "", region |-> 0, ok |-> TRUE ]

\* what a command or its message carries: one record shape for all of them
NoPayload ==
  [ name |-> "", n |-> 0, res |-> NoRes, bm |-> NoBookmark, text |-> << >>,
    err |-> << "", "", "" >> ]
PName(x) == [ NoPayload EXCEPT !.name = x ]
PNum(x) == [ NoPayload EXCEPT !.n = x ]
PRes(x) == [ NoPayload EXCEPT !.res = x ]
PBm(x) == [ NoPayload EXCEPT !.bm = x ]
PText(x) == [ NoPayload EXCEPT !.text = x ]
PErr(x) == [ NoPayload EXCEPT !.err = x ]

Cmd(c, h, token, x) ==
  [ cmd |-> c, h |-> h, token |-> token, stale |-> FALSE, x |-> x ]

ListCmd(h, token) == Cmd("List", h, token, NoPayload)
MsgCmd(c, x) == Cmd(c, NoHandler, EmptyToken, x)

PendingCount(b) == BagCardinality(b)
Emit(w, c) == [ w EXCEPT !.pending = w.pending (+) SetToBag({c}) ]

Staled(c) == [ c EXCEPT !.stale = (c.cmd = "List") \/ c.stale ]

RECURSIVE BagSum(_, _)
BagSum(b, R) ==
  IF R = {} THEN 0
  ELSE LET c == CHOOSE x \in R : TRUE IN b[c] + BagSum(b, R \ {c})

MarkStale(b) ==
  [ d \in { Staled(c) : c \in BagToSet(b) } |->
      BagSum(b, { c \in BagToSet(b) : Staled(c) = d }) ]

(***************************************************************************)
(* views.ResourceListView                                                  *)
(***************************************************************************)
NewResourceListView ==
  [ handler |-> NoHandler, resources |-> << >>, filteredByTags |-> << >>,
    activeTags |-> << >>, tagsShared |-> FALSE,
    loading |-> FALSE, error |-> "", showDetail |-> FALSE,
    detailFocus |-> FALSE, nextToken |-> EmptyToken, prevTokens |-> << >>,
    currentPage |-> 0, hasMore |-> FALSE, totalLoaded |-> 0 ]

\* v.activeTags: after a tag-filter message it is the very map object held in
\* tagFilter.selectedTags (tagsShared), so in-place changes show through
ActiveTags(w) ==
  IF w.v.tagsShared THEN w.tagFilter.selectedTags ELSE w.v.activeTags

NoDetail == [ content |-> NoRes, focused |-> FALSE ]
DetailClear(d) == [ d EXCEPT !.content = NoRes ]

SetHandler(w, handler) ==
  [ w EXCEPT !.v.handler = handler,
             !.table = SetColumns(w.table, Columns(handler)),
             !.v.resources = << >>,
             !.v.filteredByTags = << >>,
             !.v.activeTags = << >>,
             !.v.tagsShared = FALSE,
             !.tagFilter = ClearFilters(w.tagFilter),
             !.detail = DetailClear(w.detail),
             !.v.showDetail = FALSE,
             !.v.nextToken = EmptyToken,
             !.v.prevTokens = << >>,
             !.v.currentPage = 1,
             !.v.hasMore = FALSE,
             !.v.totalLoaded = 0,
             !.pending = MarkStale(w.pending) ]

loadResourcesWithToken(w, token) ==
  IF w.v.handler = NoHandler THEN w
  ELSE Emit([ w EXCEPT !.v.loading = TRUE ], ListCmd(w.v.handler, token))

LoadResources(w) == loadResourcesWithToken(w, EmptyToken)

Crash(w) == [ w EXCEPT !.process = "crashed" ]

\* prevTokens[i] of the Go slice (0-based); reading at i >= len panics
LoadNextPage(w) ==
  IF ~w.v.hasMore \/ w.v.nextToken = EmptyToken THEN w
  ELSE
    LET saved == IF w.v.currentPage = 1 THEN << EmptyToken >>
                 ELSE w.v.prevTokens
        reads == w.v.currentPage > 1 /\ Len(saved) >= w.v.currentPage - 1
        w1 == [ w EXCEPT !.v.prevTokens = saved ]
    IN  IF reads /\ w.v.currentPage - 1 >= Len(saved) THEN Crash(w1)
        ELSE
          LET currentToken == IF reads THEN saved[w.v.currentPage]
                              ELSE EmptyToken
              pushed == IF Len(saved) < w.v.currentPage
                          THEN Append(saved, currentToken) ELSE saved
          IN  loadResourcesWithToken(
                [ w EXCEPT !.v.prevTokens = pushed,
                           !.v.currentPage = w.v.currentPage + 1 ],
                w.v.nextToken)

LoadPrevPage(w) ==
  IF w.v.currentPage <= 1 THEN w
  ELSE
    LET page == w.v.currentPage - 1
        reads == page > 1 /\ Len(w.v.prevTokens) >= page - 1
        w1 == [ w EXCEPT !.v.currentPage = page ]
    IN  IF reads /\ page - 1 >= Len(w.v.prevTokens) THEN Crash(w1)
        ELSE loadResourcesWithToken(w1,
               IF reads THEN w.v.prevTokens[page] ELSE EmptyToken)

Refresh(w) ==
  IF w.v.handler = NoHandler THEN w
  ELSE LoadResources(
         [ w EXCEPT !.v.loading = TRUE,
                    !.v.detailFocus = FALSE,
                    !.detail = DetailClear(w.detail),
                    !.v.showDetail = FALSE,
                    !.table = Focus(w.table),
                    !.v.currentPage = 1,
                    !.v.prevTokens = << >>,
                    !.v.nextToken = EmptyToken,
                    !.v.hasMore = FALSE,
                    !.pending = MarkStale(w.pending) ])

CloseDetail(w) ==
  IF w.v.showDetail
    THEN [ w EXCEPT !.v.showDetail = FALSE,
                    !.v.detailFocus = FALSE,
                    !.detail = [ content |-> NoRes, focused |-> FALSE ],
                    !.table = Focus(w.table) ]
    ELSE w

LoadResourceDetail(w) ==
  IF w.v.handler = NoHandler \/ SelectedResource(w.table) = NoRes THEN w
  ELSE Emit(w, Cmd("Describe", w.v.handler, EmptyToken,
                   PRes(SelectedResource(w.table))))

(***************************************************************************)
(* ExecuteAction of the handlers: the set of values a call may return      *)
(***************************************************************************)
ErrVal(kind, p1, p2) == << kind, p1, p2 >>
ErrNotSupported == ErrVal("NOT_SUPPORTED", "", "")
ErrGetFailed == ErrVal("GET_FAILED", "", "")

ExecuteAction(h, action, res) ==
  CASE h.type = "ecs:clusters" ->
         IF action = "services"
           THEN { ErrVal("NavigateToServicesAction", GetName(res), ""),
                  ErrGetFailed }
         ELSE IF action = "tasks"
           THEN { ErrVal("NavigateToTasksAction", GetName(res), ""),
                  ErrGetFailed }
         ELSE { ErrNotSupported, ErrGetFailed }
    [] h.type = "ecs:services" ->
         IF action # "tasks" THEN { ErrNotSupported }
         ELSE { ErrVal("NavigateToTasksAction",
                       IF h.parent = << >> THEN "" ELSE h.parent[1],
                       GetName(res)),
                ErrGetFailed }
    [] h.type = "ecs:tasks" ->
         IF action # "exec" THEN { ErrNotSupported }
         \* the request lists the task's running containers: one or several
         ELSE { ErrVal("ExecRequestAction", GetName(res), "one"),
                ErrVal("ExecRequestAction", GetName(res), "several"),
                ErrGetFailed, ErrVal("task is not running", "", "") }
    [] h.type = "logs:loggroups" ->
         IF action # "streams" THEN { ErrNotSupported }
         ELSE { ErrVal("NavigateToLogStreamsAction", GetName(res), "") }
    [] h.type = "logs:logstreams" -> { ErrNotSupported }
    [] h.type = "s3:buckets" ->
         IF action = "policy"
           THEN { ErrVal("ViewBucketPolicyAction", GetName(res), "") }
           ELSE { ErrNotSupported }
    [] h.type = "dynamodb:tables" ->
         IF action = "view-items"
           THEN { ErrVal("NavigateToItemsAction", GetName(res), ""),
                  ErrGetFailed }
           ELSE { ErrVal("unknown action", "", ""), ErrGetFailed }
    [] h.type = "dynamodb:items" ->
         IF action = "edit"
           THEN { ErrVal("EditItemAction", GetName(res), ""), ErrGetFailed }
         ELSE IF action = "delete"
           THEN { ErrVal("DeleteItemAction", GetName(res), ""), ErrGetFailed }
         ELSE { ErrVal("unknown action", "", ""), ErrGetFailed }
    \* the other handlers inherit BaseHandler.ExecuteAction
    [] OTHER -> { ErrNotSupported }

\* the error values that also implement views.ActionMsg
ActionMsgKinds ==
  { "NavigateToServicesAction", "NavigateToTasksAction",
    "NavigateToLogStreamsAction", "NavigateToItemsAction",
    "ExecRequestAction", "ViewBucketPolicyAction", "EditItemAction",
    "DeleteItemAction" }

IsActionMsg(err) == err[1] \in ActionMsgKinds

(***************************************************************************)
(* Key handling of the components                                          *)
(***************************************************************************)
\* keys that a focused text input inserts as a character
Chars ==
  { "a", "b", "c", "d", "e", "g", "h", "i", "j", "k", "l", "m", "n", "o",
    "p", "q", "r", "s", "t", "v", "x", "z", "1", "2", "C", "G", "N", "O",
    "S", "V", "/", ":", "[", "]" }

\* textinput.Model.Update on a key press
InputUpdate(value, key) ==
  IF key \in Chars /\ Len(value) < MaxInputLen THEN Append(value, key)
  ELSE value

NewSearch == [ active |-> FALSE, value |-> << >>, results |-> 0, total |-> 0 ]

SetResults(sr, results, total) ==
  [ sr EXCEPT !.results = results, !.total = total ]

SearchUpdate(w, key) ==
  IF ~w.search.active THEN w
  ELSE IF key = "enter"
    THEN Emit([ w EXCEPT !.search.active = FALSE ],
              MsgCmd("SearchClosedMsg", PText(w.search.value)))
  ELSE IF key = "esc"
    THEN Emit([ w EXCEPT !.search.active = FALSE, !.search.value = << >>,
                         !.search.results = 0, !.search.total = 0 ],
              MsgCmd("SearchClosedMsg", PText(<< >>)))
  ELSE Emit([ w EXCEPT !.search.value = InputUpdate(w.search.value, key) ],
            MsgCmd("SearchUpdateMsg", NoPayload))

TableUpdate(w, key) ==
  IF ~w.table.focused THEN w
  ELSE CASE key = "j" -> [ w EXCEPT !.table = moveDown(w.table) ]
         [] key = "k" -> [ w EXCEPT !.table = moveUp(w.table) ]
         [] key = "g" -> [ w EXCEPT !.table = moveToTop(w.table) ]
         [] key = "G" -> [ w EXCEPT !.table = moveToBottom(w.table) ]
         [] key \in { "enter", "l" } ->
              IF SelectedResource(w.table) # NoRes
                THEN Emit(w, MsgCmd("ResourceSelectedMsg", NoPayload))
                ELSE w
         [] OTHER -> w

handleKeySelection(w, key) ==
  LET t == w.tagFilter IN
  CASE key = "esc" ->
         Emit([ w EXCEPT !.tagFilter.active = FALSE ],
              MsgCmd("TagFilterClosedMsg", NoPayload))
    [] key \in { "enter", "l" } ->
         IF Len(t.tagKeys) > 0 /\ t.cursor < Len(t.tagKeys)
           THEN [ w EXCEPT !.tagFilter.currentKey = t.tagKeys[t.cursor + 1],
                           !.tagFilter.tagValues =
                              IF t.tagKeys[t.cursor + 1] \in DOMAIN t.availableTags
                                THEN t.availableTags[t.tagKeys[t.cursor + 1]]
                                ELSE << >>,
                           !.tagFilter.mode = "modeSelectValue",
                           !.tagFilter.cursor = 0 ]
           ELSE w
    [] key = "j" ->
         IF t.cursor < Len(t.tagKeys) - 1
           THEN [ w EXCEPT !.tagFilter.cursor = t.cursor + 1 ] ELSE w
    [] key = "k" ->
         IF t.cursor > 0 THEN [ w EXCEPT !.tagFilter.cursor = t.cursor - 1 ]
         ELSE w
    [] key = "c" ->
         \* a fresh map: the view keeps the old one
         Emit([ w EXCEPT !.tagFilter.selectedTags = << >>,
                         !.v.activeTags = ActiveTags(w),
                         !.v.tagsShared = FALSE ],
              MsgCmd("TagFilterUpdateMsg", NoPayload))
    [] key = "x" ->
         IF Len(t.tagKeys) > 0 /\ t.cursor < Len(t.tagKeys)
           THEN Emit([ w EXCEPT !.tagFilter.selectedTags =
                                   MapDelete(t.selectedTags,
                                             t.tagKeys[t.cursor + 1]) ],
                     MsgCmd("TagFilterUpdateMsg", NoPayload))
           ELSE w
    [] OTHER -> w

handleValueSelection(w, key) ==
  LET t == w.tagFilter IN
  CASE key \in { "esc", "h" } ->
         [ w EXCEPT !.tagFilter.mode = "modeSelectKey", !.tagFilter.cursor = 0 ]
    [] key \in { "enter", "l" } ->
         IF Len(t.tagValues) > 0 /\ t.cursor < Len(t.tagValues)
           THEN Emit([ w EXCEPT !.tagFilter.selectedTags =
                                   MapSet(t.selectedTags, t.currentKey,
                                          t.tagValues[t.cursor + 1]),
                                !.tagFilter.mode = "modeSelectKey",
                                !.tagFilter.cursor = 0 ],
                     MsgCmd("TagFilterUpdateMsg", NoPayload))
           ELSE w
    [] key = "j" ->
         IF t.cursor < Len(t.tagValues) - 1
           THEN [ w EXCEPT !.tagFilter.cursor = t.cursor + 1 ] ELSE w
    [] key = "k" ->
         IF t.cursor > 0 THEN [ w EXCEPT !.tagFilter.cursor = t.cursor - 1 ]
         ELSE w
    [] key = "/" ->
         [ w EXCEPT !.tagFilter.mode = "modeInput", !.tagFilter.input = << >> ]
    [] OTHER -> w

handleInput(w, key) ==
  LET t == w.tagFilter IN
  CASE key = "esc" -> [ w EXCEPT !.tagFilter.mode = "modeSelectValue" ]
    [] key = "enter" ->
         Emit([ w EXCEPT !.tagFilter.selectedTags =
                           IF t.input # << >>
                             THEN MapSet(t.selectedTags, t.currentKey, t.input)
                             ELSE t.selectedTags,
                         !.tagFilter.mode = "modeSelectKey",
                         !.tagFilter.cursor = 0 ],
              MsgCmd("TagFilterUpdateMsg", NoPayload))
    [] OTHER -> [ w EXCEPT !.tagFilter.input = InputUpdate(t.input, key) ]

TagFilterUpdate(w, key) ==
  IF ~w.tagFilter.active THEN w
  ELSE CASE w.tagFilter.mode = "modeSelectKey" -> handleKeySelection(w, key)
         [] w.tagFilter.mode = "modeSelectValue" -> handleValueSelection(w, key)
         [] OTHER -> handleInput(w, key)

(***************************************************************************)
(* ResourceListView.Update                                                 *)
(***************************************************************************)
\* case ResourcesLoadedMsg
ViewResourcesLoaded(w, msg) ==
  IF msg.Error # ""
    THEN [ w EXCEPT !.v.loading = FALSE, !.v.error = msg.Error ]
    ELSE
      LET shown == IF DOMAIN ActiveTags(w) # {}
                     THEN FilterByTags(msg.Resources, ActiveTags(w))
                     ELSE msg.Resources
      IN  [ w EXCEPT !.v.loading = FALSE,
                     !.v.error = "",
                     !.v.resources = msg.Resources,
                     !.v.totalLoaded = Len(msg.Resources),
                     !.v.nextToken = msg.NextToken,
                     !.v.hasMore = (msg.NextToken # EmptyToken),
                     !.tagFilter = TagFilterSetResources(w.tagFilter,
                                                         msg.Resources),
                     !.v.filteredByTags = shown,
                     !.table = SetResources(w.table, shown),
                     !.search = SetResults(w.search, Len(shown),
                                           Len(msg.Resources)) ]

\* case components.TagFilterUpdateMsg: msg.Tags is the filter's own map
ViewTagFilterUpdate(w) ==
  LET tags == w.tagFilter.selectedTags
      shown == IF DOMAIN tags # {} THEN FilterByTags(w.v.resources, tags)
               ELSE w.v.resources
  IN  [ w EXCEPT !.v.activeTags = tags,
                 !.v.tagsShared = TRUE,
                 !.v.filteredByTags = shown,
                 !.table = SetResources(w.table, shown),
                 !.search = SetResults(w.search, Len(shown),
                                       Len(w.v.resources)) ]

\* case components.TagFilterClosedMsg
ViewTagFilterClosed(w) ==
  [ w EXCEPT !.v.activeTags = w.tagFilter.selectedTags,
             !.v.tagsShared = TRUE,
             !.table = Focus(w.table) ]

\* case ResourceDetailLoadedMsg
ViewDetailLoaded(w, res, fails) ==
  IF fails THEN [ w EXCEPT !.v.error = "DESCRIBE_FAILED" ]
  ELSE [ w EXCEPT !.v.error = "",
                  !.detail.content = res,
                  !.v.showDetail = TRUE ]

\* case components.SearchUpdateMsg: the query is read when the command runs
ViewSearchUpdate(w) ==
  LET t == ApplyFilter(w.table, w.search.value) IN
  [ w EXCEPT !.table = t,
             !.search = SetResults(w.search, TableLen(t), Len(w.v.resources)) ]

\* case components.SearchClosedMsg
ViewSearchClosed(w, query) ==
  [ w EXCEPT !.search.active = FALSE,
             !.table = Focus(ApplyFilter(w.table, query)) ]

\* case components.ResourceSelectedMsg
ViewResourceSelected(w) ==
  LoadResourceDetail([ w EXCEPT !.v.showDetail = TRUE ])

DetailClosed(w) ==
  [ w EXCEPT !.v.showDetail = FALSE,
             !.v.detailFocus = FALSE,
             !.detail = [ content |-> NoRes, focused |-> FALSE ],
             !.table = Focus(w.table) ]

\* the dispatch of a declared action key (the loop over handler.Actions())
\* a dispatch that also sets the view's handler anew when the action fails
DispatchActionResetting(w, key, err) ==
  LET action == ActionForKey(w.v.handler, key) IN
  IF SelectedResource(w.table) = NoRes THEN w
  ELSE IF IsActionMsg(err) THEN Emit(w, MsgCmd("ActionMsg", PErr(err)))
  ELSE Emit(SetHandler(w, w.v.handler),
            MsgCmd("ActionErrorMsg", PErr(<< err[1], action.name, "" >>)))

DispatchAction(w, key, err) ==
  LET action == ActionForKey(w.v.handler, key) IN
  IF SelectedResource(w.table) = NoRes THEN w
  ELSE IF IsActionMsg(err) THEN Emit(w, MsgCmd("ActionMsg", PErr(err)))
  ELSE Emit(w, MsgCmd("ActionErrorMsg", PErr(<< err[1], action.name, "" >>)))

\* case tea.KeyMsg.  err is the value ExecuteAction returns if it is called.
ViewKey(w, key, err) ==
  LET sActive == w.search.active
      tActive == w.tagFilter.active
      h == w.v.handler
  IN
  IF key = "/" /\ ~sActive
    THEN [ w EXCEPT !.table = Blur(w.table), !.search.active = TRUE ]
  ELSE IF key = "c" /\ ~sActive /\ ~HasActionKey(h, "c")
    THEN IF SelectedResource(w.table) # NoRes
           THEN Emit(w, MsgCmd("CopyToClipboard", PName("ARN")))
           ELSE w
  ELSE IF key = "C" /\ ~sActive
    THEN IF w.v.showDetail
           THEN IF w.detail.content # NoRes
                  THEN Emit(w, MsgCmd("CopyToClipboard", PName("JSON")))
                  ELSE w
         ELSE IF SelectedResource(w.table) # NoRes
           THEN Emit(w, MsgCmd("CopyToClipboard", PName("ARN")))
         ELSE w
  ELSE IF key = "d" /\ ~sActive
    THEN IF w.v.showDetail THEN DetailClosed(w) ELSE LoadResourceDetail(w)
  ELSE IF key = "tab" /\ w.v.showDetail
    THEN IF ~w.v.detailFocus
           THEN [ w EXCEPT !.v.detailFocus = TRUE,
                           !.table = Blur(w.table),
                           !.detail.focused = TRUE ]
           ELSE [ w EXCEPT !.v.detailFocus = FALSE,
                           !.detail.focused = FALSE,
                           !.table = Focus(w.table) ]
  ELSE IF key = "esc" /\ sActive
    THEN [ w EXCEPT !.search.active = FALSE, !.search.value = << >>,
                    !.search.results = 0, !.search.total = 0,
                    !.table = Focus(w.table) ]
  ELSE IF key = "esc" /\ w.v.showDetail /\ ~sActive
    THEN DetailClosed(w)
  ELSE IF key = "ctrl+r" /\ ~sActive /\ ~tActive
    THEN Refresh(w)
  ELSE IF key = "r" /\ ~sActive /\ ~tActive /\ ~HasActionKey(h, "r")
    THEN Refresh(w)
  ELSE IF ~sActive /\ ~tActive /\ h # NoHandler /\ HasActionKey(h, key)
    THEN DispatchAction(w, key, err)
  ELSE IF key = "o" /\ ~sActive /\ ~tActive
    THEN [ w EXCEPT !.table = CycleSortColumn(w.table) ]
  ELSE IF key = "O" /\ ~sActive /\ ~tActive
    THEN [ w EXCEPT !.table = ToggleSortDirection(w.table) ]
  ELSE IF key = "t" /\ ~sActive /\ ~tActive /\ ~HasActionKey(h, "t")
    THEN [ w EXCEPT !.table = Blur(w.table),
                    !.tagFilter = TagFilterActivate(w.tagFilter) ]
  ELSE IF key \in { "n", "]" } /\ ~sActive /\ ~tActive
    THEN IF w.v.hasMore THEN LoadNextPage(w) ELSE w
  ELSE IF key \in { "N", "[" } /\ ~sActive /\ ~tActive
    THEN IF w.v.currentPage > 1 THEN LoadPrevPage(w) ELSE w
  ELSE IF tActive THEN TagFilterUpdate(w, key)
  ELSE IF sActive THEN SearchUpdate(w, key)
  ELSE IF w.v.detailFocus /\ w.v.showDetail THEN w
  ELSE TableUpdate(w, key)

\* whether ViewKey(w, key, _) reaches the ExecuteAction call
CallsExecuteAction(w, key) ==
  /\ ~(key = "/" /\ ~w.search.active)
  /\ ~(key = "c" /\ ~w.search.active /\ ~HasActionKey(w.v.handler, "c"))
  /\ ~(key = "C" /\ ~w.search.active)
  /\ ~(key = "d" /\ ~w.search.active)
  /\ ~(key = "tab" /\ w.v.showDetail)
  /\ key \notin { "esc", "ctrl+r" }
  /\ ~w.search.active /\ ~w.tagFilter.active
  /\ w.v.handler # NoHandler /\ HasActionKey(w.v.handler, key)
  /\ SelectedResource(w.table) # NoRes

(***************************************************************************)
(* components.Footer                                                       *)
(***************************************************************************)
NewFooter ==
  [ message |-> << >>, messageErr |-> FALSE, loading |-> FALSE,
    page |-> 0, hasMore |-> FALSE, count |-> 0, handlerActions |-> << >> ]

\* a status text: the format's fixed part and the value formatted into it
Text(prefix, arg) == << prefix, arg >>

SetMessage(w, msg, isError) ==
  [ w EXCEPT !.footer.message = msg, !.footer.messageErr = isError ]

ClearMessage(w) ==
  [ w EXCEPT !.footer.message = << >>, !.footer.messageErr = FALSE ]

SetLoading(w, loading) == [ w EXCEPT !.footer.loading = loading ]

SetPagination(w, page, hasMore, count) ==
  [ w EXCEPT !.footer.page = page, !.footer.hasMore = hasMore,
             !.footer.count = count ]

\* a footer reset that leaves the page number on display
ClearPaginationKeepingPage(w) ==
  [ w EXCEPT !.footer.hasMore = FALSE, !.footer.count = 0 ]

ClearPagination(w) ==
  [ w EXCEPT !.footer.page = 0, !.footer.hasMore = FALSE, !.footer.count = 0 ]

SetHandlerActions(w, actions) == [ w EXCEPT !.footer.handlerActions = actions ]

ClearHandlerActions(w) == [ w EXCEPT !.footer.handlerActions = << >> ]

(***************************************************************************)
(* ui.App                                                                  *)
(***************************************************************************)
NewApp ==
  [ state |-> "StateHome", mode |-> "ModeNormal", loading |-> FALSE,
    initialized |-> FALSE, selector |-> "", bookmarkSelector |-> FALSE,
    infoDialog |-> FALSE ]

\* Register calls one registerHandlers makes
RECURSIVE registerFrom(_, _, _)
registerFrom(r, scope, i) ==
  IF i > Len(RegisteredTypes) THEN r
  ELSE registerFrom(Register(r, Handler(RegisteredTypes[i], scope, << >>)),
                    scope, i + 1)

registerHandlers(w) ==
  [ w EXCEPT !.registry = registerFrom(w.registry, w.clientMgr, 1) ]

\* the steps every navigation shares once it has its handler
showHandler(w, handler) ==
  LoadResources(
    SetLoading(
      SetHandlerActions(
        SetHandler([ w EXCEPT !.a.state = "StateResourceList",
                              !.a.loading = TRUE ], handler),
        Actions(handler)),
      TRUE))

navigateToResource(w, shortcut) ==
  LET got == Get(w.registry, shortcut) IN
  IF ~got.ok
    THEN SetMessage(w, Text("Handler not found: ", shortcut), TRUE)
    ELSE showHandler(w, got.h)

\* the part of a resource type behind its colon (strings.Split in
\* navigateToBookmark)
TypeSuffix(t) ==
  CASE t = "iam:users" -> "users"
    [] t = "iam:roles" -> "roles"
    [] t = "ec2:instances" -> "instances"
    [] t = "ecs:clusters" -> "clusters"
    [] t = "ecs:services" -> "services"
    [] OTHER -> t

\* bookmark.region 0 stands for the empty region; ok tells whether the
\* configuration of the bookmark's region loads
navigateToBookmark(w, bookmark) ==
  LET shortcut == TypeSuffix(bookmark.type)
      find(x) == IF Get(x.registry, shortcut).ok
                   THEN Get(x.registry, shortcut)
                   ELSE Get(x.registry, bookmark.type)
      notFound(x) ==
        SetMessage(x, Text("Handler not found for: ", bookmark.type), TRUE)
  IN
  IF ~find(w).ok THEN notFound(w)
  ELSE IF bookmark.region # 0 /\ bookmark.region # w.clientMgr
    THEN IF ~bookmark.ok
           THEN SetMessage(w, Text("Failed to switch region: ",
                                   "CONFIG_FAILED"), TRUE)
           ELSE LET w1 == registerHandlers(
                            [ w EXCEPT !.clientMgr = bookmark.region ])
                IN  IF ~find(w1).ok THEN notFound(w1)
                    ELSE showHandler(w1, find(w1).h)
  ELSE showHandler(w, find(w).h)

Quit(w) == [ w EXCEPT !.process = "exited" ]

\* leaving the list: the loads still under way are now out of date
goHome(w) ==
  [ w EXCEPT !.a.state = "StateHome", !.pending = MarkStale(w.pending) ]

\* a command line is << command >> or << command, argument >>
executeCommand(w, input) ==
  LET command == input[1] IN
  CASE command \in { "q", "quit", "exit" } -> Quit(w)
    [] command = "home" -> goHome(w)
    [] command = "profile" ->
         IF Len(input) > 1 THEN Emit(w, MsgCmd("switchProfile", PNum(input[2])))
         ELSE [ w EXCEPT !.a.selector = "SelectProfile" ]
    [] command = "region" ->
         IF Len(input) > 1 THEN Emit(w, MsgCmd("switchRegion", PNum(input[2])))
         ELSE [ w EXCEPT !.a.selector = "SelectRegion" ]
    [] command \in { "users", "roles", "policies", "sg", "kms", "secrets",
                     "rds", "ecs", "lambda", "logs", "s3" } ->
         navigateToResource(w, command)
    [] command \in { "ec2", "instances" } -> navigateToResource(w, "ec2")
    [] command \in { "vpc", "vpcs" } -> navigateToResource(w, "vpc")
    [] OTHER -> SetMessage(w, Text("Unknown command: ", command), TRUE)

handleCommandInput(w, key, input) ==
  CASE key = "esc" -> [ w EXCEPT !.a.mode = "ModeNormal" ]
    [] key = "enter" ->
         executeCommand([ w EXCEPT !.a.mode = "ModeNormal" ], input)
    \* every other key edits the command line or its completion
    [] OTHER -> w

\* Selector.Update: item is the list's selected entry, 0 when there is none
SelectorUpdate(w, key, item) ==
  CASE key = "enter" ->
         IF item = 0 THEN w
         ELSE Emit([ w EXCEPT !.a.selector = "" ],
                   MsgCmd(IF w.a.selector = "SelectProfile"
                            THEN "ProfileSelectedMsg" ELSE "RegionSelectedMsg",
                          PNum(item)))
    [] key \in { "esc", "q" } ->
         Emit([ w EXCEPT !.a.selector = "" ], MsgCmd("SelectorClosedMsg", NoPayload))
    [] OTHER -> w

\* BookmarkSelector.Update: bookmark is the stored entry under the cursor,
\* NoBookmark when the store has none there
BookmarkSelectorUpdate(w, key, bookmark) ==
  CASE key \in { "esc", "q", "'" } ->
         Emit([ w EXCEPT !.a.bookmarkSelector = FALSE ],
              MsgCmd("BookmarkClosedMsg", NoPayload))
    [] key \in { "enter", "l" } ->
         IF bookmark # NoBookmark
           THEN Emit([ w EXCEPT !.a.bookmarkSelector = FALSE ],
                     MsgCmd("BookmarkSelectedMsg", PBm(bookmark)))
           ELSE w
    [] key \in { "d", "x" } ->
         IF bookmark # NoBookmark
           THEN Emit(w, MsgCmd("BookmarkRemovedMsg", NoPayload))
           ELSE w
    [] OTHER -> w

InfoDialogUpdate(w, key) ==
  IF key \in { "esc", "q" } THEN [ w EXCEPT !.a.infoDialog = FALSE ] ELSE w

enterCommandMode(w) == [ w EXCEPT !.a.mode = "ModeCommand" ]

handleNormalMode(w, key, err) ==
  IF w.a.state = "StateResourceList"
    THEN CASE key \in { "esc", "h" } ->
                IF w.v.showDetail THEN CloseDetail(w)
                ELSE ClearHandlerActions(ClearPagination(goHome(w)))
           [] key = "q" -> Quit(w)
           [] key = ":" -> enterCommandMode(w)
           [] key = "m" ->
                IF SelectedResource(w.table) # NoRes
                  THEN Emit(w, MsgCmd("AddBookmark", NoPayload))
                  ELSE w
           [] key = "'" -> [ w EXCEPT !.a.bookmarkSelector = TRUE ]
           [] OTHER -> ViewKey(w, key, err)
    ELSE CASE key \in { "q", "ctrl+c" } -> Quit(w)
           [] key = ":" -> enterCommandMode(w)
           [] key = "p" -> [ w EXCEPT !.a.selector = "SelectProfile" ]
           [] key = "R" -> [ w EXCEPT !.a.selector = "SelectRegion" ]
           [] key = "?" -> SetMessage(w, Text("q:quit  ::command", ""), FALSE)
           [] key = "'" -> [ w EXCEPT !.a.bookmarkSelector = TRUE ]
           [] OTHER -> w

\* which part of App.Update's KeyMsg case takes the key
KeyRoute(w) ==
  IF w.a.selector # "" THEN "selector"
  ELSE IF w.a.bookmarkSelector THEN "bookmarkSelector"
  ELSE IF w.a.mode = "ModeCommand" THEN "command"
  ELSE IF w.a.infoDialog THEN "infoDialog"
  ELSE "normal"

\* App.Update, case tea.KeyMsg.  pick is the value the step draws from its
\* environment: the typed command line, the entry under a selector's cursor,
\* or what ExecuteAction returns.
UpdateKey(w, key, pick) ==
  CASE KeyRoute(w) = "selector" -> SelectorUpdate(w, key, pick)
    [] KeyRoute(w) = "bookmarkSelector" -> BookmarkSelectorUpdate(w, key, pick)
    [] KeyRoute(w) = "command" -> handleCommandInput(w, key, pick)
    [] KeyRoute(w) = "infoDialog" -> InfoDialogUpdate(w, key)
    [] OTHER -> handleNormalMode(w, key, pick)

\* case awsInitializedMsg
awsInitialized(w, failed) ==
  LET w1 == registerHandlers([ w EXCEPT !.a.initialized = TRUE ]) IN
  IF failed THEN SetMessage(w1, Text("AWS Error: ", "CONFIG_FAILED"), TRUE)
  ELSE w1

\* case views.ResourcesLoadedMsg
ResourcesLoaded(w, msg) ==
  LET w1 == SetLoading([ ViewResourcesLoaded(w, msg) EXCEPT !.a.loading = FALSE ],
                       FALSE)
  IN  IF msg.Error # ""
        THEN SetMessage(w1, Text("Error: ", msg.Error), TRUE)
        ELSE SetPagination(ClearMessage(w1), w1.v.currentPage, w1.v.hasMore,
                           w1.v.totalLoaded)

\* the cases of the values that implement views.ActionMsg; msg is the value
\* ExecuteAction returned
ActionMsg(w, msg) ==
  LET kind == msg[1] IN
  CASE kind = "NavigateToServicesAction" ->
         showHandler(w, Handler("ecs:services", w.clientMgr, << msg[2] >>))
    [] kind = "NavigateToTasksAction" ->
         showHandler(w, Handler("ecs:tasks", w.clientMgr,
                                IF msg[3] # "" THEN << msg[2], msg[3] >>
                                               ELSE << msg[2] >>))
    [] kind = "NavigateToLogStreamsAction" ->
         showHandler(w, Handler("logs:logstreams", w.clientMgr, << msg[2] >>))
    [] kind = "ViewBucketPolicyAction" ->
         Emit(SetLoading(w, TRUE), MsgCmd("loadBucketPolicy", PName(msg[2])))
    [] kind = "ExecRequestAction" ->
         Emit(IF msg[3] = "several"
                THEN SetMessage(w, Text("Multiple containers found, using: ",
                                        "c1"), FALSE)
                ELSE w,
              MsgCmd("executeECSExec", PName(msg[2])))
    \* no case of App.Update names the value: it reaches the list view, whose
    \* Update has no case for it either
    [] OTHER -> w

\* App.Update on the message a finished command delivers.  c is the command;
\* out.fails tells whether its call failed, out.late whether the command read
\* the view's handler after it had been replaced.
UpdateMsg(w, c, out) ==
  CASE c.cmd = "initializeAWS" -> awsInitialized(w, out.fails)
    [] c.cmd \in { "switchProfile", "switchRegion" } ->
         IF out.fails
           THEN SetMessage(w, Text("Error: ", "CONFIG_FAILED"), TRUE)
           ELSE Emit([ w EXCEPT !.clientMgr = c.x.n ],
                     MsgCmd("awsInitializedMsg", NoPayload))
    [] c.cmd = "awsInitializedMsg" -> awsInitialized(w, FALSE)
    [] c.cmd = "ProfileSelectedMsg" -> Emit(w, MsgCmd("switchProfile", c.x))
    [] c.cmd = "RegionSelectedMsg" -> Emit(w, MsgCmd("switchRegion", c.x))
    [] c.cmd = "List" ->
         ResourcesLoaded(w, List(IF out.late THEN w.v.handler ELSE c.h,
                                 c.token, out.fails))
    [] c.cmd = "Describe" -> ViewDetailLoaded(w, c.x.res, out.fails)
    [] c.cmd = "ResourceSelectedMsg" -> ViewResourceSelected(w)
    [] c.cmd = "SearchUpdateMsg" -> ViewSearchUpdate(w)
    [] c.cmd = "SearchClosedMsg" -> ViewSearchClosed(w, c.x.text)
    [] c.cmd = "CopyToClipboard" ->
         IF out.fails THEN SetMessage(w, Text("Failed to copy: ", "IO"), TRUE)
         ELSE SetMessage(w, Text("Copied to clipboard: ", c.x.name), FALSE)
    [] c.cmd = "AddBookmark" ->
         IF out.fails
           THEN SetMessage(w, Text("Failed to bookmark: ", "IO"), TRUE)
           ELSE SetMessage(w, Text("Bookmarked: ", ""), FALSE)
    [] c.cmd = "BookmarkRemovedMsg" ->
         IF out.fails
           THEN SetMessage(w, Text("Failed to remove bookmark: ", "IO"), TRUE)
           ELSE SetMessage(w, Text("Bookmark removed", ""), FALSE)
    [] c.cmd = "BookmarkSelectedMsg" -> navigateToBookmark(w, c.x.bm)
    [] c.cmd = "ActionMsg" -> ActionMsg(w, c.x.err)
    [] c.cmd = "ActionErrorMsg" ->
         SetMessage(w, Text("Action failed: ", c.x.err[1]), TRUE)
    [] c.cmd = "loadBucketPolicy" ->
         IF out.fails \/ ~Get(w.registry, "s3").ok
           THEN SetLoading(SetMessage(w, Text("Failed to load data: ",
                                              "POLICY"), TRUE), FALSE)
           ELSE [ SetLoading(w, FALSE) EXCEPT !.a.infoDialog = TRUE ]
    [] c.cmd = "executeECSExec" ->
         IF out.fails THEN SetMessage(w, Text("Exec failed: ", "EXIT"), TRUE)
         ELSE SetMessage(w, Text("Exec session completed", ""), FALSE)
    \* messages App.Update names no case for go to the list view while the
    \* list is shown
    [] c.cmd = "TagFilterUpdateMsg" ->
         IF w.a.state = "StateResourceList" THEN ViewTagFilterUpdate(w) ELSE w
    [] c.cmd = "TagFilterClosedMsg" ->
         IF w.a.state = "StateResourceList" THEN ViewTagFilterClosed(w) ELSE w
    \* SelectorClosedMsg, BookmarkClosedMsg
    [] OTHER -> w

(***************************************************************************)
(* The program as a state machine                                          *)
(***************************************************************************)
World ==
  [ registry |-> registry, clientMgr |-> clientMgr, a |-> a,
    footer |-> footer, v |-> v, table |-> table, search |-> search,
    tagFilter |-> tagFilter, detail |-> detail, pending |-> pending,
    process |-> process ]

\* commands that end in a registerHandlers call
Registering ==
  { "initializeAWS", "switchProfile", "switchRegion", "awsInitializedMsg",
    "ProfileSelectedMsg", "RegionSelectedMsg" }

\* the exploration stops short of a world that exceeds the bounds
WithinBounds(w, maxPending) ==
  /\ PendingCount(w.pending) <= maxPending
  /\ Len(w.registry.order)
       + Len(RegisteredTypes)
           * BagSum(w.pending, { c \in BagToSet(w.pending) : c.cmd \in Registering })
       <= MaxRegistrations * Len(RegisteredTypes)

\* the variables hold world w
Is(w) ==
  /\ registry = w.registry
  /\ clientMgr = w.clientMgr
  /\ a = w.a
  /\ footer = w.footer
  /\ v = w.v
  /\ table = w.table
  /\ search = w.search
  /\ tagFilter = w.tagFilter
  /\ detail = w.detail
  /\ pending = w.pending
  /\ process = w.process

Becomes(w, maxPending) ==
  /\ WithinBounds(w, maxPending)
  /\ registry' = w.registry
  /\ clientMgr' = w.clientMgr
  /\ a' = w.a
  /\ footer' = w.footer
  /\ v' = w.v
  /\ table' = w.table
  /\ search' = w.search
  /\ tagFilter' = w.tagFilter
  /\ detail' = w.detail
  /\ pending' = w.pending
  /\ process' = w.process

\* NewApp followed by App.Init: the initializeAWS command is under way
Started ==
  [ registry |-> NewRegistry, clientMgr |-> 1, a |-> NewApp,
    footer |-> NewFooter, v |-> NewResourceListView, table |-> NewTable,
    search |-> NewSearch, tagFilter |-> NewTagFilter, detail |-> NoDetail,
    pending |-> SetToBag({ MsgCmd("initializeAWS", NoPayload) }),
    process |-> "running" ]

Init == Is(Started)

\* the bookmarks the store may hold
Bookmarks ==
  [ type : { "iam:users", "ecs:services" }, region : 0..MaxScope,
    ok : BOOLEAN ]

\* what a key press may draw from its environment; commands are the command
\* lines the user may have typed
Picks(w, key, commands) ==
  CASE KeyRoute(w) = "selector" ->
         IF key = "enter" THEN 0..MaxScope ELSE { 0 }
    [] KeyRoute(w) = "bookmarkSelector" ->
         IF key \in { "enter", "l", "d", "x" }
           THEN Bookmarks \cup { NoBookmark } ELSE { NoBookmark }
    [] KeyRoute(w) = "command" ->
         IF key = "enter" THEN commands ELSE { << "home" >> }
    [] KeyRoute(w) = "normal" /\ w.a.state = "StateResourceList"
         /\ key \notin { "h", "q", ":", "m", "'" }
         /\ CallsExecuteAction(w, key) ->
         ExecuteAction(w.v.handler, ActionForKey(w.v.handler, key).name,
                       SelectedResource(w.table))
    [] OTHER -> { ErrNotSupported }

\* the user presses one of the keys: Bubble Tea hands App.Update a tea.KeyMsg
KeyStep(keys, commands, maxPending) ==
  /\ process = "running"
  /\ \E key \in keys :
       \E pick \in Picks(World, key, commands) :
         Becomes(UpdateKey(World, key, pick), maxPending)

Outcomes(c) ==
  [ fails : IF c.cmd \in { "initializeAWS", "switchProfile", "switchRegion",
                           "List", "Describe", "CopyToClipboard",
                           "AddBookmark", "BookmarkRemovedMsg",
                           "loadBucketPolicy", "executeECSExec" }
              THEN BOOLEAN ELSE { FALSE },
    late : IF c.cmd = "List" THEN BOOLEAN ELSE { FALSE } ]

\* a background command finishes and Bubble Tea hands its message to
\* App.Update
DeliverStep(maxPending) ==
  /\ process = "running"
  /\ \E c \in BagToSet(pending) :
       \E out \in Outcomes(c) :
         Becomes(UpdateMsg([ World EXCEPT !.pending = pending (-) SetToBag({c}) ],
                           c, out),
                 maxPending)

(***************************************************************************)
(* Spec: the whole application, one command under way at a time            *)
(***************************************************************************)
Keys ==
  { "n", "N", "r", "ctrl+r", "esc", ":", "enter", "m", "p", "s", "q" }

Commands ==
  { << c >> : c \in { "users", "vpc", "ecs", "home", "nope" } }
    \cup { << "profile", s >> : s \in 1..MaxScope }

KeyMsg == KeyStep(Keys, Commands, MaxPending)

Deliver == DeliverStep(MaxPending)

Next == KeyMsg \/ Deliver

Spec == Init /\ [][Next]_vars

(***************************************************************************)
(* SpecInFlight: paging and navigation with several loads under way        *)
(***************************************************************************)
KeysInFlight == { "n", "N", "ctrl+r", "esc", ":", "enter" }

CommandsInFlight == { << c >> : c \in { "users", "roles" } }

KeyMsgInFlight == KeyStep(KeysInFlight, CommandsInFlight, MaxInFlight)

DeliverInFlight == DeliverStep(MaxInFlight)

NextInFlight == KeyMsgInFlight \/ DeliverInFlight

SpecInFlight == Init /\ [][NextInFlight]_vars

(***************************************************************************)
(* SpecAnyHandler: the list view showing the first page of any handler     *)
(* whose ExecuteAction can return a navigation payload                     *)
(***************************************************************************)
NavigatingHandlers ==
  { Handler("ecs:clusters", 1, << >>), Handler("logs:loggroups", 1, << >>),
    Handler("ecs:services", 1, << "r1" >>),
    Handler("dynamodb:tables", 1, << >>) }

\* the application started, its handlers registered
Initialized ==
  awsInitialized([ Started EXCEPT !.pending = EmptyBag ], FALSE)

\* the view was given the handler and its first page has arrived
Showing(handler) ==
  LET w == showHandler(Initialized, handler) IN
  ResourcesLoaded([ w EXCEPT !.pending = EmptyBag ],
                  List(handler, EmptyToken, FALSE))

InitAnyHandler == \E handler \in NavigatingHandlers : Is(Showing(handler))

KeysAnyHandler == { "s", "t", "v", "x", "j", "k", "p", "esc" }

KeyMsgAnyHandler == KeyStep(KeysAnyHandler, { << "home" >> }, MaxPending)

NextAnyHandler == KeyMsgAnyHandler \/ Deliver

SpecAnyHandler == InitAnyHandler /\ [][NextAnyHandler]_vars

(***************************************************************************)
(* SpecActions: handler actions and paging on a loaded users or clusters   *)
(* list                                                                    *)
(***************************************************************************)
InitActions ==
  \E t \in { "iam:users", "ecs:clusters" } :
    Is(Showing(Handler(t, 1, << >>)))

KeysActions == { "n", "N", "p", "s", "t", "ctrl+r", "esc" }

KeyMsgActions == KeyStep(KeysActions, { << "home" >> }, MaxPending)

NextActions == KeyMsgActions \/ Deliver

SpecActions == InitActions /\ [][NextActions]_vars

(***************************************************************************)
(* SpecRegistry: Register calls on the registry alone                      *)
(***************************************************************************)
\* the handler instances a caller may construct
Instances ==
  { Handler(t, s, << >>) :
      t \in AllTypes \ ScopedTypes, s \in 1..MaxScope }
    \cup { Handler(t, s, << r >>) :
             t \in ScopedTypes, s \in 1..MaxScope, r \in { "r1", "r2" } }

\* the registry is new, or the App has registered its handlers
InitRegistry ==
  /\ registry \in { NewRegistry, Initialized.registry }
  /\ clientMgr = Started.clientMgr
  /\ a = Started.a
  /\ footer = Started.footer
  /\ v = Started.v
  /\ table = Started.table
  /\ search = Started.search
  /\ tagFilter = Started.tagFilter
  /\ detail = Started.detail
  /\ pending = EmptyBag
  /\ process = "running"

\* Register calls made since InitRegistry (registerHandlers makes
\* Len(RegisteredTypes) of them)
CallsMade == Len(registry.order) % Len(RegisteredTypes)

RegisterCall ==
  /\ CallsMade < MaxRegisterCalls
  /\ \E handler \in Instances : registry' = Register(registry, handler)
  /\ UNCHANGED << clientMgr, a, footer, v, table, search, tagFilter, detail,
                  pending, process >>

SpecRegistry == InitRegistry /\ [][RegisterCall]_vars

(***************************************************************************)
(* SpecTagFilter: a tag selection applied to a loaded page                 *)
(***************************************************************************)
\* the pages a tagged handler may return: rows in any order, none twice
TagPages ==
  { p \in UNION { [ 1..n -> 1..MaxRows ] : n \in 0..MaxRows } :
      \A i, j \in DOMAIN p : p[i] = p[j] => i = j }

PageOf(t, p) == [ i \in DOMAIN p |-> Res(t, 1, p[i]) ]

\* the values the user may have selected or typed for a tag key
TagValues ==
  { << "p", "r", "o" >>, << "P", "R", "O" >>, << "p", "r", "o", "d" >>,
    << "r", "o", "d" >>, << "s", "t", "a", "g" >>, << "x" >>, << "X" >>,
    << "z" >> }

TagSelections ==
  UNION { [ S -> TagValues ] : S \in SUBSET { "env", "team" } }

\* the list of a tagged handler right after page arrived
ShowingPage(page) ==
  LET handler == Handler("ec2:vpcs", 1, << >>)
      w == showHandler(Initialized, handler)
  IN  ResourcesLoaded([ w EXCEPT !.pending = EmptyBag ],
                      [ Resources |-> page, NextToken |-> EmptyToken,
                        Error |-> "" ])

\* the list shows the page with the tag filter open, and the selection's
\* TagFilterUpdateMsg is on its way
Selecting(page, tags) ==
  LET w1 == ShowingPage(page) IN
  Emit([ w1 EXCEPT !.tagFilter = [ TagFilterActivate(w1.tagFilter)
                                     EXCEPT !.selectedTags = tags ],
                   !.table = Blur(w1.table) ],
       MsgCmd("TagFilterUpdateMsg", NoPayload))

InitTagFilter ==
  \E p \in TagPages : \E tags \in TagSelections :
    Is(Selecting(PageOf("ec2:vpcs", p), tags))

KeysTagFilter == { "c", "x", "j", "esc" }

KeyMsgTagFilter == KeyStep(KeysTagFilter, { << "home" >> }, MaxPending)

NextTagFilter == KeyMsgTagFilter \/ Deliver

SpecTagFilter == InitTagFilter /\ [][NextTagFilter]_vars

(***************************************************************************)
(* SpecPipeline: search, tag filter, sort and reload on one loaded page    *)
(***************************************************************************)
\* the page has just arrived, or a tag selection was just made on it
InitPipeline ==
  \E p \in { q \in TagPages : Len(q) = MaxRows } :
    \/ Is(ShowingPage(PageOf("ec2:vpcs", p)))
    \/ \E tags \in { x \in TagSelections :
                       DOMAIN x = { "env" } /\ Len(x["env"]) = 3 } :
         Is(Selecting(PageOf("ec2:vpcs", p), tags))

KeysPipeline == { "o", "O", "/", "a", "t", "G", "esc", "ctrl+r" }

KeyMsgPipeline == KeyStep(KeysPipeline, { << "home" >> }, MaxPending)

NextPipeline == KeyMsgPipeline \/ Deliver

SpecPipeline == InitPipeline /\ [][NextPipeline]_vars

(***************************************************************************)
(* SpecSwitch: filters, sort, detail and overlays across handler switches  *)
(***************************************************************************)
InitSwitch ==
  \E t \in { "iam:users", "ec2:vpcs" } : Is(Showing(Handler(t, 1, << >>)))

KeysSwitch == { "/", "a", "enter", "esc", ":", "o", "O", "tab" }

CommandsSwitch == { << "users" >>, << "vpc" >> }

KeyMsgSwitch == KeyStep(KeysSwitch, CommandsSwitch, MaxPending)

NextSwitch == KeyMsgSwitch \/ Deliver

SpecSwitch == InitSwitch /\ [][NextSwitch]_vars

(* Back navigation alone: opening and closing the detail pane, moving the  *)
(* focus, searching, leaving the list for Home and entering it by command. *)
KeysBack == { "enter", "esc", "h", "tab", ":", "/" }

KeyMsgBack == KeyStep(KeysBack, CommandsSwitch, MaxPending)

NextBack == KeyMsgBack \/ Deliver

SpecBack == InitSwitch /\ [][NextBack]_vars

(***************************************************************************)
(* Properties                                                              *)
(***************************************************************************)
\* this step hands command c's message to App.Update
Delivered(c) ==
  c \in BagToSet(pending) /\ CopiesIn(c, pending') < CopiesIn(c, pending)

\* this step starts command c
Issued(c) == CopiesIn(c, pending') > CopiesIn(c, pending)

\* the view shows a page and nothing is under way
Settled ==
  /\ process = "running"
  /\ a.state = "StateResourceList"
  /\ ~v.loading
  /\ v.error = ""
  /\ pending = EmptyBag

Pagination == << v.currentPage, v.prevTokens, v.nextToken, v.hasMore >>

\* C1: paging forward through all the pages of a paginated handler is
\* possible (the program keeps running), and when the view has come back to
\* page 2 from a later page it shows exactly the resources of page 2.
C1_PagingRoundTrip ==
  /\ process # "crashed"
  /\ ( /\ Settled
       /\ v.handler # NoHandler
       /\ HandlerInfo[v.handler.type].paginated
       /\ v.currentPage = 2
       /\ Len(v.prevTokens) >= 2 )
     => v.resources
          = List(v.handler, Token(v.handler.type, 2), FALSE).Resources

\* C2: once the view has a handler, the cursor stack is as long as the
\* number of pages before the current one: len(prevTokens) = currentPage - 1.
C2_StackLength ==
  v.handler # NoHandler => Len(v.prevTokens) = v.currentPage - 1

\* the handler type a navigation payload targets
NavigationTarget(kind) ==
  CASE kind = "NavigateToServicesAction" -> "ecs:services"
    [] kind = "NavigateToTasksAction" -> "ecs:tasks"
    [] kind = "NavigateToLogStreamsAction" -> "logs:logstreams"
    [] kind = "NavigateToItemsAction" -> "dynamodb:items"
    [] OTHER -> ""

C4_PlainErrorFrame ==
  [][ \A c \in BagToSet(pending) \cup BagToSet(pending') :
        c.cmd = "ActionErrorMsg"
        => /\ Issued(c) => /\ v'.handler = v.handler
                           /\ Pagination' = Pagination
           /\ Delivered(c) => /\ v'.handler = v.handler
                              /\ Pagination' = Pagination
                              /\ footer'.message
                                   = Text("Action failed: ", c.x.err[1])
                              /\ footer'.messageErr ]_vars

\* C4 witness: the users handler's unsupported action has been reported in
\* the footer while the view is still on the users list
C4_ErrorSurfaced ==
  /\ a.state = "StateResourceList"
  /\ v.handler.type = "iam:users"
  /\ v.currentPage = 1
  /\ v.hasMore
  /\ footer.message = Text("Action failed: ", ErrNotSupported[1])
  /\ footer.messageErr

\* the resource-list context: the key reaches handleNormalMode, no overlay
\* is active and a row is selected
ListContext ==
  /\ process = "running"
  /\ a.state = "StateResourceList"
  /\ KeyRoute(World) = "normal"
  /\ ~search.active
  /\ ~tagFilter.active
  /\ v.handler # NoHandler
  /\ SelectedResource(table) # NoRes

\* C5: in the resource-list context, pressing a key the active handler
\* declares as an action does what dispatching that action does, whatever
\* ExecuteAction returns, and nothing else.
C5_ActionKeysFirst ==
  ListContext =>
    \A key \in ActionKeys(v.handler) :
      \A err \in ExecuteAction(v.handler, ActionForKey(v.handler, key).name,
                               SelectedResource(table)) :
        UpdateKey(World, key, err) = DispatchAction(World, key, err)

C7_OneEntryPerType ==
  /\ \A i, j \in 1..Len(Types(registry)) :
       Types(registry)[i] = Types(registry)[j] => i = j
  /\ Len(All(registry)) = Cardinality(DOMAIN registry.handlers)

\* the List calls under way that were issued since the view last changed
\* handler or was refreshed
WantedLists(b) ==
  BagSum(b, { c \in BagToSet(b) : c.cmd = "List" /\ ~c.stale })

\* C8: no step taken while the view is loading leaves more than one List
\* call under way, even counting only the calls issued since the view last
\* changed handler or was refreshed.
C8_OneListInFlight ==
  [][ v.loading => WantedLists(pending') <= 1 ]_vars

\* C9: the result of a List call that was under way when the handler was
\* switched, the view refreshed or Home entered changes neither the
\* resources shown, the next token, hasMore nor the footer's pagination.
C9_StaleResultDiscarded ==
  [][ \A c \in BagToSet(pending) :
        (c.cmd = "List" /\ c.stale /\ Delivered(c))
        => /\ v'.resources = v.resources
           /\ table'.resources = table.resources
           /\ v'.nextToken = v.nextToken
           /\ v'.hasMore = v.hasMore
           /\ footer'.page = footer.page
           /\ footer'.hasMore = footer.hasMore
           /\ footer'.count = footer.count ]_vars

\* C10: every token passed to a handler's List is empty or a token that
\* same handler returned.
C10_TokensOwned ==
  \A c \in BagToSet(pending) :
    c.cmd = "List" =>
      \/ c.token = EmptyToken
      \/ /\ c.token[1] = c.h.type
         /\ c.token[2] \in 2..NumPages

\* what the list view renders of its page, and where in the pages it is
RenderState(w) ==
  << w.v.resources, w.table.resources, w.v.currentPage, w.v.prevTokens,
     w.v.nextToken, w.v.hasMore >>

\* the List commands key issues when pressed in world w
ListsIssued(w, key) ==
  LET w1 == UpdateKey(w, key, ErrNotSupported) IN
  { c \in BagToSet(w1.pending) : c.cmd = "List" /\ ~c.stale }

\* world w after key was pressed and the List call c it issued has failed
AfterFailedList(w, key, c) ==
  LET w1 == UpdateKey(w, key, ErrNotSupported) IN
  UpdateMsg([ w1 EXCEPT !.pending = w1.pending (-) SetToBag({c}) ], c,
            [ fails |-> TRUE, late |-> FALSE ])

\* C11: when the List call a refresh, next-page or previous-page key issues
\* from a settled list fails, the footer shows the error and the resources
\* shown, page counter, cursor stack, next token and hasMore are what they
\* were before the key was pressed.
C11_FailedListKeepsState ==
  (Settled /\ ListContext) =>
    \A key \in { "n", "N", "ctrl+r" } :
      \A c \in ListsIssued(World, key) :
        LET w2 == AfterFailedList(World, key, c) IN
        /\ w2.footer.messageErr
        /\ w2.footer.message = Text("Error: ", "LIST_FAILED")
        /\ RenderState(w2) = RenderState(World)

\* the resource carries every selected tag key with a value that contains
\* the selected value, letter case aside
TagKept(res, tags) ==
  \A k \in DOMAIN tags :
    /\ k \in DOMAIN GetTags(res)
    /\ Contains(ToLower(GetTags(res)[k]), ToLower(tags[k]))

\* the tag selection has been applied to the page
TagsApplied ==
  /\ a.state = "StateResourceList"
  /\ v.activeTags = tagFilter.selectedTags
  /\ \A c \in BagToSet(pending) : c.cmd # "TagFilterUpdateMsg"

ExamplePage == PageOf("ec2:vpcs", << 1, 2, 3 >>)

\* C12: once a tag selection is applied, the rows shown are exactly the
\* resources of the page that carry every selected key with a value that
\* contains the selected value case-insensitively, in page order; on the
\* page {env: prod}, {env: staging}, {env: Prod, team: x} the selection
\* {env: pro} shows the first and third resource and {env: pro, team: x}
\* the third alone.
C12_TagFilterKeeps ==
  TagsApplied =>
    /\ v.filteredByTags
         = SelectSeq(v.resources, LAMBDA res : TagKept(res, v.activeTags))
    /\ table.resources = v.filteredByTags
    /\ (v.resources = ExamplePage
          /\ v.activeTags = [ k \in { "env" } |-> << "p", "r", "o" >> ])
       => v.filteredByTags = PageOf("ec2:vpcs", << 1, 3 >>)
    /\ (v.resources = ExamplePage
          /\ v.activeTags = [ k \in { "env", "team" } |->
                                IF k = "env" THEN << "p", "r", "o" >>
                                             ELSE << "x" >> ])
       => v.filteredByTags = PageOf("ec2:vpcs", << 3 >>)

\* C12 witness: {env: pro} applied to the example page shows two rows
C12_TwoProdRows ==
  /\ TagsApplied
  /\ v.resources = ExamplePage
  /\ v.activeTags = [ k \in { "env" } |-> << "p", "r", "o" >> ]
  /\ Len(table.resources) = 2

\* the rows the table shows, top to bottom
VisibleRows(t) ==
  [ i \in 1..Len(t.filtered) |-> t.resources[t.filtered[i] + 1] ]

\* the value Table.Sort compares for a resource
SortValue(t, res) == ToLower(ToTableRow(res)[t.sortColumn + 1])

Position(rows, res) == CHOOSE i \in 1..Len(rows) : rows[i] = res

\* rows of t with equal values in the column t2 is sorted on stand in t2 in
\* the order they had in t
KeepsTies(t, t2) ==
  /\ Len(t2.resources) = Len(t.resources)
  /\ \A i \in 1..Len(t.resources) :
       \E k \in 1..Len(t2.resources) : t2.resources[k] = t.resources[i]
  /\ \A i, j \in 1..Len(t.resources) :
       (i < j /\ SortValue(t2, t.resources[i]) = SortValue(t2, t.resources[j]))
         => Position(t2.resources, t.resources[i])
              < Position(t2.resources, t.resources[j])

\* a key press that sorted the table on another column or in the other
\* direction
SortStep ==
  /\ table'.sortColumn # -1
  /\ table'.columns = table.columns
  /\ \/ table'.sortColumn # table.sortColumn
     \/ table'.sortAscending # table.sortAscending

C14_DoubleToggleRestores ==
  (process = "running" /\ a.state = "StateResourceList"
     /\ table.sortColumn # -1)
    => ToggleSortDirection(ToggleSortDirection(table)).resources
         = table.resources

\* the query a search message applies to the table
QueryOf(c) == IF c.cmd = "SearchUpdateMsg" THEN search.value ELSE c.x.text

\* C15: when a search message has applied its query to the table, applying
\* the same query once more shows the same rows in the same order.
C15_FilterIdempotent ==
  [][ \A c \in BagToSet(pending) :
        (Delivered(c) /\ c.cmd \in { "SearchUpdateMsg", "SearchClosedMsg" }
           /\ a.state = "StateResourceList")
          => /\ table' = ApplyFilter(table, QueryOf(c))
             /\ VisibleRows(ApplyFilter(table', QueryOf(c)))
                  = VisibleRows(table') ]_vars

\* C15 witness: a query shows some rows of the page and hides others
C15_SomeRowsHidden ==
  /\ table.filter = << "a" >>
  /\ Len(table.filtered) > 0
  /\ Len(table.filtered) < Len(table.resources)

\* C16: the search overlay and the tag filter overlay are never active at
\* the same time.
C16_OneOverlay == ~(search.active /\ tagFilter.active)

\* C17: no key press makes the event loop call a handler: in the list
\* context, no key the handler declares as an action reaches the
\* ExecuteAction call inside the processing of the key.
C17_NoCallInKeyStep ==
  ListContext =>
    \A key \in ActionKeys(v.handler) : ~CallsExecuteAction(World, key)

\* C18: a not-supported result of an action is never reported to the user as
\* an error: whenever ExecuteAction can return ErrNotSupported for a key in
\* the list context, pressing the key and delivering the event it issues
\* puts no error message in the footer.
C18_NotSupportedHidden ==
  (Settled /\ ListContext) =>
    \A key \in ActionKeys(v.handler) :
      ErrNotSupported \in ExecuteAction(v.handler,
                                        ActionForKey(v.handler, key).name,
                                        SelectedResource(table))
      => LET w1 == UpdateKey(World, key, ErrNotSupported) IN
         \A c \in BagToSet(w1.pending) :
           LET w2 == UpdateMsg([ w1 EXCEPT !.pending = EmptyBag ], c,
                               [ fails |-> FALSE, late |-> FALSE ])
           IN  ~w2.footer.messageErr

\* the rows are in the order of the table's sort column and direction
InSortOrder(t, rows) ==
  t.sortColumn # -1 =>
    \A i, j \in 1..Len(rows) :
      i < j => IF t.sortAscending
                 THEN ~StrLess(SortValue(t, rows[j]), SortValue(t, rows[i]))
                 ELSE ~StrLess(SortValue(t, rows[i]), SortValue(t, rows[j]))

\* C19: with no event on its way, the rows shown are exactly the rows of the
\* loaded page that match the table's free-text query and carry every
\* active tag, in the order of the current sort column and direction.
C19_PipelineComposes ==
  (Settled /\ v.handler # NoHandler) =>
    /\ { VisibleRows(table)[i] : i \in 1..Len(table.filtered) }
         = { v.resources[i] : i \in
               { k \in 1..Len(v.resources) :
                   /\ TagKept(v.resources[k], ActiveTags(World))
                   /\ \/ table.filter = << >>
                      \/ RowMatches(ToTableRow(v.resources[k]),
                                    table.filter) } }
    /\ InSortOrder(table, VisibleRows(table))

\* the token whose List call returned the page now shown
ProducingToken ==
  IF v.resources = << >> \/ v.resources[1].page = 1 THEN EmptyToken
  ELSE Token(v.handler.type, v.resources[1].page)

\* C20: in the list context, pressing n loads nothing when hasMore is false;
\* when hasMore is true it pushes the token that produced the page shown on
\* the cursor stack, issues one List call with the stored next token and
\* raises the page counter by exactly one.
C20_NextPageTransition ==
  (Settled /\ ListContext /\ ~HasActionKey(v.handler, "n")) =>
    LET w1 == UpdateKey(World, "n", ErrNotSupported) IN
    IF ~v.hasMore
      THEN /\ w1.pending = EmptyBag
           /\ w1.v.currentPage = v.currentPage
           /\ w1.v.prevTokens = v.prevTokens
      ELSE /\ w1.process = "running"
           /\ w1.v.prevTokens = Append(v.prevTokens, ProducingToken)
           /\ BagToSet(w1.pending) = { ListCmd(v.handler, v.nextToken) }
           /\ w1.v.currentPage = v.currentPage + 1

\* the token whose List call returns the page before the one now shown
PrecedingToken ==
  IF v.currentPage <= 2 THEN EmptyToken
  ELSE Token(v.handler.type, v.currentPage - 1)

\* C21: in the list context, pressing N loads nothing on page 1; on a later
\* page it pops the top of the cursor stack, issues one List call with the
\* token that produced the preceding page (the empty token for page 1) and
\* lowers the page counter by exactly one.
C21_PrevPageTransition ==
  (Settled /\ ListContext /\ ~HasActionKey(v.handler, "N")) =>
    LET w1 == UpdateKey(World, "N", ErrNotSupported) IN
    IF v.currentPage <= 1
      THEN /\ w1.pending = EmptyBag
           /\ w1.v.currentPage = v.currentPage
           /\ w1.v.prevTokens = v.prevTokens
      ELSE /\ w1.process = "running"
           /\ Len(v.prevTokens) > 0
           /\ w1.v.prevTokens = SubSeq(v.prevTokens, 1, Len(v.prevTokens) - 1)
           /\ BagToSet(w1.pending) = { ListCmd(v.handler, PrecedingToken) }
           /\ w1.v.currentPage = v.currentPage - 1

\* C22: a handler switch leaves no filter of the previous handler in
\* effect: after the step that changes the view's handler the active tag
\* map is empty and the table's free-text filter is empty.
C22_SwitchClearsFilters ==
  [][ v'.handler # v.handler
        => /\ (IF v'.tagsShared THEN tagFilter'.selectedTags
                                ELSE v'.activeTags) = << >>
           /\ table'.filter = << >> ]_vars

\* C23: the selection cursor is always a valid index into the visible
\* rows: at least 0 and below their number when there are any, 0 otherwise.
C23_CursorValid ==
  /\ table.cursor >= 0
  /\ Len(table.filtered) > 0 => table.cursor < Len(table.filtered)
  /\ Len(table.filtered) = 0 => table.cursor = 0

\* C23 witness: a query has reduced a sorted page of three rows to one
C23_FilteredToOneRow ==
  /\ table.filter = << "a" >>
  /\ table.sortColumn # -1
  /\ Len(table.resources) = MaxRows
  /\ Len(table.filtered) = 1
  /\ table.cursor = 0

\* the tag keys present on the loaded page, and the values of one key
PageTagKeys == UNION { DOMAIN GetTags(v.resources[i]) : i \in 1..Len(v.resources) }

PageTagValues(k) ==
  { GetTags(v.resources[i])[k] :
      i \in { j \in 1..Len(v.resources) : k \in DOMAIN GetTags(v.resources[j]) } }

\* C24: the tag filter offers exactly the tag keys, and for each key exactly
\* the values, present on the resources of the page the view holds; also
\* right after a handler switch or a refresh.
C24_TagsOfLoadedPage ==
  (process = "running" /\ v.handler # NoHandler) =>
    /\ DOMAIN tagFilter.availableTags = PageTagKeys
    /\ { tagFilter.tagKeys[i] : i \in 1..Len(tagFilter.tagKeys) } = PageTagKeys
    /\ \A k \in PageTagKeys :
         { tagFilter.availableTags[k][i] :
             i \in 1..Len(tagFilter.availableTags[k]) } = PageTagValues(k)

\* the 0-based indices of the columns the handler marks sortable
SortableColumns(h) ==
  { c \in 0..(Len(Columns(h)) - 1) : Columns(h)[c + 1] }

\* the sortable column that follows column c, wrapping after the last one
NextSortable(h, c) ==
  LET after == { x \in SortableColumns(h) : x > c } IN
  IF after # {} THEN CHOOSE x \in after : \A y \in after : x <= y
  ELSE CHOOSE x \in SortableColumns(h) : \A y \in SortableColumns(h) : x <= y

\* C25: a key press that changes the sort column moves it to the next
\* sortable column of the active handler, wrapping after the last; one that
\* changes the direction keeps the column; and the column sorted on
\* afterwards is a sortable column of the active handler.
C25_SortColumnSortable ==
  [][ (v'.handler = v.handler /\ v.handler # NoHandler
         /\ \/ table'.sortColumn # table.sortColumn
            \/ table'.sortAscending # table.sortAscending)
        => /\ table'.sortColumn \in SortableColumns(v.handler)
           /\ table'.sortColumn # table.sortColumn
                => table'.sortColumn = NextSortable(v.handler, table.sortColumn)
           /\ (table'.sortColumn = table.sortColumn
                 /\ Cardinality(SortableColumns(v.handler)) > 1)
                => table'.sortAscending # table.sortAscending ]_vars

\* C26: in the resource list, with the key reaching normal-mode handling,
\* esc and h go to Home and clear the footer's pagination and action hints
\* when no detail pane is open; with a detail pane open they only close the
\* pane and the application stays in the resource list.
C26_BackNavigation ==
  (process = "running" /\ a.state = "StateResourceList"
     /\ KeyRoute(World) = "normal") =>
    \A key \in { "esc", "h" } :
      LET w1 == UpdateKey(World, key, ErrNotSupported) IN
      IF v.showDetail
        THEN /\ w1.a = a
             /\ w1.v = [ v EXCEPT !.showDetail = FALSE, !.detailFocus = FALSE ]
             /\ w1.footer = footer
             /\ w1.pending = pending
        ELSE /\ w1.a.state = "StateHome"
             /\ w1.footer.page = 0
             /\ ~w1.footer.hasMore
             /\ w1.footer.count = 0
             /\ w1.footer.handlerActions = << >>

\* C26 witness: back at Home from a loaded list, with the footer cleared
C26_BackAtHome ==
  /\ a.state = "StateHome"
  /\ v.handler # NoHandler
  /\ Len(v.resources) > 0
  /\ ~v.loading
  /\ footer.page = 0
  /\ footer.handlerActions = << >>

\* C27: no sequence of page loads and next/previous key presses reads the
\* cursor stack outside its length: the process never crashes.
C27_NoStackOverrun == process # "crashed"

\* C28: while the search overlay is active in the resource list, no key
\* leaves the list, quits, opens the command line or the bookmarks, stores a
\* bookmark or dispatches a handler action; and the overlay is not active
\* once the application is at Home.
C28_SearchConsumesKeys ==
  /\ a.state = "StateHome" => ~search.active
  /\ (process = "running" /\ a.state = "StateResourceList"
        /\ KeyRoute(World) = "normal" /\ search.active) =>
       \A key \in Chars \cup { "enter", "esc", "h", "q", "'", "tab" } :
         LET w1 == UpdateKey(World, key, ErrNotSupported) IN
         /\ w1.process = "running"
         /\ w1.a = a
         /\ \A c \in BagToSet(w1.pending) :
              c.cmd \in { "AddBookmark", "ActionMsg", "ActionErrorMsg" }
                => c \in BagToSet(pending)

\* C29: when the list is shown with no event on its way, no overlay active
\* and the detail pane not both open and focused, the table has the
\* keyboard focus; and the detail focus is set only while the detail pane is
\* open.
C29_TableHasFocus ==
  (process = "running" /\ a.state = "StateResourceList"
     /\ pending = EmptyBag) =>
    /\ (~search.active /\ ~tagFilter.active
          /\ ~(v.showDetail /\ v.detailFocus)) => table.focused
    /\ v.detailFocus => v.showDetail

\* the last profile or region switch is complete: nothing of it is on its
\* way and every registered handler is bound to the current scope
SwitchComplete ==
  /\ a.initialized
  /\ \A c \in BagToSet(pending) :
       c.cmd \notin { "switchProfile", "switchRegion", "awsInitializedMsg",
                      "ProfileSelectedMsg", "RegionSelectedMsg" }
  /\ \A t \in DOMAIN registry.handlers : registry.handlers[t].scope = clientMgr

\* C30: once a profile or region switch is complete, every List call the
\* application issues goes to a handler bound to the current scope.
C30_ListsUseNewScope ==
  [][ SwitchComplete =>
        \A c \in BagToSet(pending') :
          (Issued(c) /\ c.cmd = "List") => c.h.scope = clientMgr ]_vars

====
